---- MODULE Spec2Model ----
(***************************************************************************)
(* Weight-balanced tree (bustercopley/wb): the node layer of               *)
(* include/tree/node.hpp and the container facade of include/wb/tree.hpp.  *)
(* The heap is a function from node addresses to node structs; address 0   *)
(* is the tree's embedded sentinel, -1 is the null pointer.                *)
(***************************************************************************)
EXTENDS Integers, Sequences, FiniteSets, TLC

\* ------------------------------------------------------------------ bounds
\* Number of heap cells available to operator new.
MaxNodes == 7
\* The harness stops inserting after this many insertions.
MaxInsertions == 5
\* The same, for the harness that also searches.
MaxSearchInsertions == 4
\* The same, for the harness that only inserts and erases.
MaxBalanceInsertions == 7
\* The same, for the harness under which the links are inspected.
MaxShapeInsertions == 5
\* The largest tree from which a single insert or erase is examined.
MaxInductiveNodes == 7
\* The same, for the harness whose sentinel starts with arbitrary size_ and
\* right_ fields.
MaxSentinelInsertions == 4
\* The sentinel's right_ field starts absent or as one of the addresses
\* 1..MaxSentinelRight.
MaxSentinelRight == 2
\* The same, for the harness that keeps the tree sorted.
MaxSortedInsertions == 5
\* The harness that keeps the tree sorted stores values 0..MaxSortedValue.
MaxSortedValue == 2

\* --------------------------------------------------------------- addresses
nullptr == -1
sentinel == 0
NodeIds == 1..MaxNodes
Addresses == 0..MaxNodes

VARIABLES
  mem,         \* Addresses -> struct node (value_, size_, left_, right_, parent_)
  live,        \* addresses returned by new and not yet passed to delete
  insertions,  \* the harness's count of insert calls
  deletions,   \* the harness's count of erase calls
  call         \* the call that has just returned: arguments, results, pre-state

vars == <<mem, live, insertions, deletions, call>>

\* Stands for the content of the sentinel's size_ field, which no constructor
\* sets (node() = default): not a value a std::size_t computation yields.
Indeterminate == -2

\* A heap cell that is not allocated.
FreeCell ==
  [value_ |-> 0, size_ |-> 0, left_ |-> nullptr, right_ |-> nullptr,
   parent_ |-> nullptr]

\* Mutant of NewNode: the size field starts at 0.
NewNode_size_zero(value) ==
  [value_ |-> value, size_ |-> 0, left_ |-> nullptr, right_ |-> nullptr,
   parent_ |-> nullptr]

\* node<T>::node(U &&value): a singleton.
NewNode(value) ==
  [value_ |-> value, size_ |-> 1, left_ |-> nullptr, right_ |-> nullptr,
   parent_ |-> nullptr]

\* Mutant of SentinelCell: the constructor does not set right_.
SentinelCell_right_unset ==
  [value_ |-> 0, size_ |-> Indeterminate, left_ |-> nullptr,
   right_ |-> Indeterminate, parent_ |-> sentinel]

\* tree<T>::tree(): the sentinel is its own parent and has no children.
SentinelCell ==
  [value_ |-> 0, size_ |-> Indeterminate, left_ |-> nullptr,
   right_ |-> nullptr, parent_ |-> sentinel]

\* x + d on a std::size_t field; an indeterminate value stays indeterminate.
Add(x, d) == IF x = Indeterminate THEN Indeterminate ELSE x + d

\* ------------------------------------------------------------- node layer

size(m, s) == IF s = nullptr THEN 0 ELSE m[s].size_

is_sentinel(m, p) == m[p].parent_ = p

RECURSIVE Leftmost(_, _)
\* while (p->left_) { p = p->left_; }
Leftmost(m, p) ==
  IF m[p].left_ # nullptr THEN Leftmost(m, m[p].left_) ELSE p

RECURSIVE Rightmost(_, _)
\* while (p->right_) { p = p->right_; }
Rightmost(m, p) ==
  IF m[p].right_ # nullptr THEN Rightmost(m, m[p].right_) ELSE p

\* Mutant of ClimbWhileRight: the loop body runs once at most.
ClimbWhileRight_once(m, p) ==
  IF ~is_sentinel(m, m[p].parent_) /\ p = m[m[p].parent_].right_
  THEN m[p].parent_
  ELSE p

RECURSIVE ClimbWhileRight(_, _)
\* while (!is_sentinel(p->parent_) && p == p->parent_->right_) { p = p->parent_; }
ClimbWhileRight(m, p) ==
  IF ~is_sentinel(m, m[p].parent_) /\ p = m[m[p].parent_].right_
  THEN ClimbWhileRight(m, m[p].parent_)
  ELSE p

\* Mutant of ClimbWhileLeft: the loop body runs once at most.
ClimbWhileLeft_once(m, p) ==
  IF ~is_sentinel(m, m[p].parent_) /\ p = m[m[p].parent_].left_
  THEN m[p].parent_
  ELSE p

RECURSIVE ClimbWhileLeft(_, _)
\* while (!is_sentinel(p->parent_) && p == p->parent_->left_) { p = p->parent_; }
ClimbWhileLeft(m, p) ==
  IF ~is_sentinel(m, m[p].parent_) /\ p = m[m[p].parent_].left_
  THEN ClimbWhileLeft(m, m[p].parent_)
  ELSE p

\* Mutant of inorder_successor: without a right child it answers the parent,
\* never climbing.
inorder_successor_no_climb(m, p) ==
  IF m[p].right_ # nullptr
  THEN Leftmost(m, m[p].right_)
  ELSE m[p].parent_

inorder_successor(m, p) ==
  IF m[p].right_ # nullptr
  THEN Leftmost(m, m[p].right_)
  ELSE m[ClimbWhileRight(m, p)].parent_

\* Mutant of inorder_predecessor: without a left child it answers the
\* parent, never climbing.
inorder_predecessor_no_climb(m, p) ==
  IF m[p].left_ # nullptr
  THEN Rightmost(m, m[p].left_)
  ELSE m[p].parent_

inorder_predecessor(m, p) ==
  IF m[p].left_ # nullptr
  THEN Rightmost(m, m[p].left_)
  ELSE m[ClimbWhileLeft(m, p)].parent_

RECURSIVE DescendToLeaf(_, _)
\* while (q->left_ || q->right_) { q = (q->left_ ? q->left_ : q->right_); }
DescendToLeaf(m, q) ==
  IF m[q].left_ # nullptr THEN DescendToLeaf(m, m[q].left_)
  ELSE IF m[q].right_ # nullptr THEN DescendToLeaf(m, m[q].right_)
  ELSE q

postorder_successor(m, p) ==
  LET q == m[p].parent_ IN
    IF p = m[q].left_ /\ m[q].right_ # nullptr
    THEN DescendToLeaf(m, m[q].right_)
    ELSE q

\* Mutant of owner: the parent's right_ is compared first.
owner_right_first(m, p) ==
  IF m[m[p].parent_].right_ = p
  THEN <<m[p].parent_, "right_">>
  ELSE <<m[p].parent_, "left_">>

\* owner(p) is a reference to the parent's field that holds p: the left_
\* field when it equals p, the right_ field otherwise.
owner(m, p) ==
  IF m[m[p].parent_].left_ = p
  THEN <<m[p].parent_, "left_">>
  ELSE <<m[p].parent_, "right_">>

\* Read and write through a reference <<address, field>>.
Deref(m, ref) == m[ref[1]][ref[2]]

Assign(m, ref, x) ==
  IF ref[2] = "left_"
  THEN [m EXCEPT ![ref[1]].left_ = x]
  ELSE [m EXCEPT ![ref[1]].right_ = x]

\* Mutant of SetParentIf: the child's parent pointer is left as it was.
SetParentIf_omitted(m, c, a) == m

\* if (c) { c->parent_ = a; }
SetParentIf(m, c, a) ==
  IF c # nullptr THEN [m EXCEPT ![c].parent_ = a] ELSE m

\* Mutant of recalculate_size: the node itself is not counted.
recalculate_size_no_self(m, p) ==
  [m EXCEPT ![p].size_ = size(m, m[p].left_) + size(m, m[p].right_)]

recalculate_size(m, p) ==
  [m EXCEPT ![p].size_ = size(m, m[p].left_) + size(m, m[p].right_) + 1]

is_balanced(m, left, right) == 3 * (size(m, left) + 1) >= size(m, right) + 1

\* Mutant of is_single: a single rotation is always chosen.
is_single_always(m, left, right) == TRUE

is_single(m, left, right) == size(m, left) + 1 <= 2 * (size(m, right) + 1)

\* Mutant of rotate_left_single: the rotation is done in place, a stays the
\* subtree root and takes b's value, b becomes its left child with a's value.
rotate_left_single_in_place(m, a) ==
  LET b == m[a].right_
      c == m[b].left_
      l == m[a].left_
      r == m[b].right_
      m1 == [m EXCEPT ![a].value_ = m[b].value_, ![b].value_ = m[a].value_]
      m2 == [m1 EXCEPT ![a].left_ = b, ![a].right_ = r]
      m3 == [m2 EXCEPT ![b].left_ = l, ![b].right_ = c]
      m4 == SetParentIf(m3, r, a)
      m5 == SetParentIf(m4, l, b)
      m6 == recalculate_size(m5, b)
      m7 == recalculate_size(m6, a)
  IN [m |-> m7, p |-> a]

\* Single rotation of balance_left: the right child b becomes the subtree root.
rotate_left_single(m, a) ==
  LET b == m[a].right_
      c == m[b].left_
      m1 == Assign(m, owner(m, a), b)
      m2 == [m1 EXCEPT ![b].parent_ = m1[a].parent_]
      m3 == [m2 EXCEPT ![a].right_ = c]
      m4 == SetParentIf(m3, c, a)
      m5 == [m4 EXCEPT ![b].left_ = a]
      m6 == [m5 EXCEPT ![a].parent_ = b]
      m7 == recalculate_size(m6, a)
      m8 == recalculate_size(m7, b)
  IN [m |-> m8, p |-> b]

\* Double rotation of balance_left: the right child's left child c becomes
\* the subtree root.
rotate_left_double(m, a) ==
  LET b == m[a].right_
      c == m[b].left_
      d == m[c].left_
      e == m[c].right_
      m1 == Assign(m, owner(m, a), c)
      m2 == [m1 EXCEPT ![c].parent_ = m1[a].parent_]
      m3 == [m2 EXCEPT ![a].right_ = d]
      m4 == SetParentIf(m3, d, a)
      m5 == [m4 EXCEPT ![b].left_ = e]
      m6 == SetParentIf(m5, e, b)
      m7 == [m6 EXCEPT ![c].left_ = a]
      m8 == [m7 EXCEPT ![a].parent_ = c]
      m9 == [m8 EXCEPT ![c].right_ = b]
      m10 == [m9 EXCEPT ![b].parent_ = c]
      m11 == recalculate_size(m10, a)
      m12 == recalculate_size(m11, b)
      m13 == recalculate_size(m12, c)
  IN [m |-> m13, p |-> c]

\* Returns the subtree.
balance_left(m, this) ==
  IF ~is_balanced(m, m[this].left_, m[this].right_)
  THEN IF is_single(m, m[m[this].right_].left_, m[m[this].right_].right_)
       THEN rotate_left_single(m, this)
       ELSE rotate_left_double(m, this)
  ELSE [m |-> m, p |-> this]

\* Single rotation of balance_right: the left child b becomes the subtree root.
rotate_right_single(m, a) ==
  LET b == m[a].left_
      c == m[b].right_
      m1 == Assign(m, owner(m, a), b)
      m2 == [m1 EXCEPT ![b].parent_ = m1[a].parent_]
      m3 == [m2 EXCEPT ![a].left_ = c]
      m4 == SetParentIf(m3, c, a)
      m5 == [m4 EXCEPT ![b].right_ = a]
      m6 == [m5 EXCEPT ![a].parent_ = b]
      m7 == recalculate_size(m6, a)
      m8 == recalculate_size(m7, b)
  IN [m |-> m8, p |-> b]

\* Mutant of rotate_right_double: the two subtrees of c are handed to the
\* wrong nodes, a taking c's left one and b the right one.
rotate_right_double_crossed(m, a) ==
  LET b == m[a].left_
      c == m[b].right_
      d == m[c].right_
      e == m[c].left_
      m1 == Assign(m, owner(m, a), c)
      m2 == [m1 EXCEPT ![c].parent_ = m1[a].parent_]
      m3 == [m2 EXCEPT ![a].left_ = e]
      m4 == SetParentIf(m3, e, a)
      m5 == [m4 EXCEPT ![b].right_ = d]
      m6 == SetParentIf(m5, d, b)
      m7 == [m6 EXCEPT ![c].right_ = a]
      m8 == [m7 EXCEPT ![a].parent_ = c]
      m9 == [m8 EXCEPT ![c].left_ = b]
      m10 == [m9 EXCEPT ![b].parent_ = c]
      m11 == recalculate_size(m10, a)
      m12 == recalculate_size(m11, b)
      m13 == recalculate_size(m12, c)
  IN [m |-> m13, p |-> c]

\* Double rotation of balance_right: the left child's right child c becomes
\* the subtree root.
rotate_right_double(m, a) ==
  LET b == m[a].left_
      c == m[b].right_
      d == m[c].right_
      e == m[c].left_
      m1 == Assign(m, owner(m, a), c)
      m2 == [m1 EXCEPT ![c].parent_ = m1[a].parent_]
      m3 == [m2 EXCEPT ![a].left_ = d]
      m4 == SetParentIf(m3, d, a)
      m5 == [m4 EXCEPT ![b].right_ = e]
      m6 == SetParentIf(m5, e, b)
      m7 == [m6 EXCEPT ![c].right_ = a]
      m8 == [m7 EXCEPT ![a].parent_ = c]
      m9 == [m8 EXCEPT ![c].left_ = b]
      m10 == [m9 EXCEPT ![b].parent_ = c]
      m11 == recalculate_size(m10, a)
      m12 == recalculate_size(m11, b)
      m13 == recalculate_size(m12, c)
  IN [m |-> m13, p |-> c]

\* Returns the subtree.
balance_right(m, this) ==
  IF ~is_balanced(m, m[this].right_, m[this].left_)
  THEN IF is_single(m, m[m[this].left_].right_, m[m[this].left_].left_)
       THEN rotate_right_single(m, this)
       ELSE rotate_right_double(m, this)
  ELSE [m |-> m, p |-> this]

RECURSIVE balance_above(_, _, _)
\* Walks from 'this' to the sentinel; returns the heap.
balance_above(m, this, increment) ==
  IF is_sentinel(m, m[this].parent_)
  THEN m
  ELSE LET is_right == (this = m[m[this].parent_].right_)
           p == m[this].parent_
           m1 == [m EXCEPT ![p].size_ = Add(@, increment)]
           r == IF is_right = (increment > 0)
                THEN balance_left(m1, p)
                ELSE balance_right(m1, p)
       IN balance_above(r.m, r.p, increment)

RECURSIVE balance_above_walk_no_reassign(_, _, _, _, _)
\* Mutant of balance_above_walk: the subtree root that balance_left or
\* balance_right returns is dropped and the walk goes on from the parent.
balance_above_walk_no_reassign(m, this, increment, adjusted, fuel) ==
  IF is_sentinel(m, m[this].parent_)
  THEN [m |-> m, p |-> this, adjusted |-> adjusted, terminated |-> TRUE]
  ELSE IF fuel = 0
  THEN [m |-> m, p |-> this, adjusted |-> adjusted, terminated |-> FALSE]
  ELSE LET is_right == (this = m[m[this].parent_].right_)
           p == m[this].parent_
           m1 == [m EXCEPT ![p].size_ = Add(@, increment)]
           r == IF is_right = (increment > 0)
                THEN balance_left(m1, p)
                ELSE balance_right(m1, p)
       IN balance_above_walk_no_reassign(r.m, p, increment,
                                         Append(adjusted, p), fuel - 1)

RECURSIVE balance_above_walk(_, _, _, _, _)
\* balance_above, followed for at most 'fuel' iterations of its loop: the
\* heap, the node the walk has come to, the nodes whose size_ it adjusted, in
\* order, and whether the loop was left.
balance_above_walk(m, this, increment, adjusted, fuel) ==
  IF is_sentinel(m, m[this].parent_)
  THEN [m |-> m, p |-> this, adjusted |-> adjusted, terminated |-> TRUE]
  ELSE IF fuel = 0
  THEN [m |-> m, p |-> this, adjusted |-> adjusted, terminated |-> FALSE]
  ELSE LET is_right == (this = m[m[this].parent_].right_)
           p == m[this].parent_
           m1 == [m EXCEPT ![p].size_ = Add(@, increment)]
           r == IF is_right = (increment > 0)
                THEN balance_left(m1, p)
                ELSE balance_right(m1, p)
       IN balance_above_walk(r.m, r.p, increment, Append(adjusted, p),
                             fuel - 1)

\* One call of balance_left (left = TRUE) or balance_right on the node a of
\* the heap m: the heap before, the heap after and the node returned.
balance_call(m, a, left) ==
  LET r == IF left THEN balance_left(m, a) ELSE balance_right(m, a)
  IN [before |-> m, a |-> a, left |-> left, after |-> r.m, ret |-> r.p]

RECURSIVE balance_above_calls(_, _, _, _, _)
\* balance_above, followed for at most 'fuel' iterations of its loop: the
\* final heap and the calls of balance_left and balance_right it made, in
\* order, after those in 'log'.
balance_above_calls(m, this, increment, log, fuel) ==
  IF is_sentinel(m, m[this].parent_) \/ fuel = 0
  THEN [m |-> m, log |-> log]
  ELSE LET is_right == (this = m[m[this].parent_].right_)
           p == m[this].parent_
           m1 == [m EXCEPT ![p].size_ = Add(@, increment)]
           c == balance_call(m1, p, is_right = (increment > 0))
       IN balance_above_calls(c.after, c.ret, increment, Append(log, c),
                              fuel - 1)

\* Mutant of insert_before_self: descends to the leftmost node of the left
\* subtree and attaches the new node as its left child.
insert_before_self_leftmost(m, this, value, result) ==
  LET m0 == [m EXCEPT ![result] = NewNode(value)]
      m1 == IF m0[this].left_ # nullptr
            THEN LET p == Leftmost(m0, m0[this].left_)
                 IN [m0 EXCEPT ![p].left_ = result, ![result].parent_ = p]
            ELSE [m0 EXCEPT ![this].left_ = result, ![result].parent_ = this]
  IN [m |-> balance_above(m1, result, 1), p |-> result]

\* insert_before_self up to the call of balance_above: the new node is linked
\* in as a leaf and no size has been adjusted yet.
attach_before_self(m, this, value, result) ==
  LET m0 == [m EXCEPT ![result] = NewNode(value)]
  IN IF m0[this].left_ # nullptr
     THEN LET p == Rightmost(m0, m0[this].left_)
          IN [m0 EXCEPT ![p].right_ = result, ![result].parent_ = p]
     ELSE [m0 EXCEPT ![this].left_ = result, ![result].parent_ = this]

\* 'result' is the address operator new returns.
insert_before_self(m, this, value, result) ==
  [m |-> balance_above(attach_before_self(m, this, value, result), result, 1),
   p |-> result]

\* The calls of balance_left and balance_right that insert_before_self
\* makes, through balance_above, and the heap it leaves.
insert_before_self_calls(m, this, value, result) ==
  balance_above_calls(attach_before_self(m, this, value, result), result, 1,
                      <<>>, MaxNodes + 1)

\* Mutant of replace_self: the owner of 'this' is not redirected to p.
replace_self_parent_only(m, this, p) ==
  IF p # nullptr THEN [m EXCEPT ![p].parent_ = m[this].parent_] ELSE m

replace_self(m, this, p) ==
  LET m1 == Assign(m, owner(m, this), p)
  IN IF p # nullptr THEN [m1 EXCEPT ![p].parent_ = m1[this].parent_] ELSE m1

\* Mutant of erase_self_leaf: the only child is taken to be the left one.
erase_self_leaf_left_only(m, this) ==
  LET parent == m[this].parent_
      m1 == [m EXCEPT ![parent].size_ = Add(@, -1)]
      p == m1[this].left_
      m2 == SetParentIf(m1, p, parent)
  IN IF this = m2[parent].left_
     THEN LET m3 == [m2 EXCEPT ![parent].left_ = p]
          IN IF ~is_sentinel(m3, parent)
             THEN LET r == balance_left(m3, parent)
                  IN balance_above(r.m, r.p, -1)
             ELSE m3
     ELSE LET m3 == [m2 EXCEPT ![parent].right_ = p]
              r == balance_right(m3, parent)
          IN balance_above(r.m, r.p, -1)

\* if (!left_ || !right_) { ... } up to the call of balance_left or
\* balance_right: the heap, the node the call is made on, which of the two
\* is called, and whether any is.
erase_self_leaf_unlink(m, this) ==
  LET parent == m[this].parent_
      m1 == [m EXCEPT ![parent].size_ = Add(@, -1)]
      p == IF m1[this].left_ = nullptr THEN m1[this].right_ ELSE m1[this].left_
      m2 == SetParentIf(m1, p, parent)
  IN IF this = m2[parent].left_
     THEN LET m3 == [m2 EXCEPT ![parent].left_ = p]
          IN [m |-> m3, a |-> parent, left |-> TRUE,
              called |-> ~is_sentinel(m3, parent)]
     ELSE LET m3 == [m2 EXCEPT ![parent].right_ = p]
          IN [m |-> m3, a |-> parent, left |-> FALSE, called |-> TRUE]

\* if (!left_ || !right_) { ... }: at most one child.  The heap at the
\* point of 'delete this'.
erase_self_leaf(m, this) ==
  LET u == erase_self_leaf_unlink(m, this)
  IN IF ~u.called THEN u.m
     ELSE LET r == IF u.left THEN balance_left(u.m, u.a)
                   ELSE balance_right(u.m, u.a)
          IN balance_above(r.m, r.p, -1)

\* Two children, if (p != right_), up to the call of balance_left on q.
erase_self_deep_unlink(m, this, p) ==
  LET q == m[p].parent_
      m1 == [m EXCEPT ![q].left_ = m[p].right_]
      m2 == SetParentIf(m1, m1[p].right_, q)
      m3 == [m2 EXCEPT ![p].right_ = m2[this].right_]
      m4 == [m3 EXCEPT ![m3[this].right_].parent_ = p]
      m5 == [m4 EXCEPT ![p].left_ = m4[this].left_]
      m6 == [m5 EXCEPT ![m5[this].left_].parent_ = p]
      m7 == replace_self(m6, this, p)
      m8 == [m7 EXCEPT ![p].size_ = m7[this].size_]
      m9 == [m8 EXCEPT ![q].size_ = Add(@, -1)]
  IN [m |-> m9, a |-> q, left |-> TRUE, called |-> TRUE]

\* Two children, if (p != right_): the successor p is deeper in the right
\* subtree and is the left child of q.
erase_self_deep(m, this, p) ==
  LET u == erase_self_deep_unlink(m, this, p)
      r == balance_left(u.m, u.a)
  IN balance_above(r.m, r.p, -1)

\* Two children, else branch, up to the call of balance_right on p.
erase_self_right_unlink(m, this, p) ==
  LET m1 == replace_self(m, this, p)
      m2 == [m1 EXCEPT ![p].left_ = m1[this].left_]
      m3 == [m2 EXCEPT ![m2[this].left_].parent_ = p]
      m4 == [m3 EXCEPT ![p].size_ = m3[this].size_ - 1]
  IN [m |-> m4, a |-> p, left |-> FALSE, called |-> TRUE]

\* Two children, else branch: the successor p is the right child.
erase_self_right(m, this, p) ==
  LET u == erase_self_right_unlink(m, this, p)
      r == balance_right(u.m, u.a)
  IN balance_above(r.m, r.p, -1)

\* erase_self up to its call of balance_left or balance_right.
erase_self_unlink(m, this) ==
  IF m[this].left_ = nullptr \/ m[this].right_ = nullptr
  THEN erase_self_leaf_unlink(m, this)
  ELSE LET p == inorder_successor(m, this)
       IN IF p # m[this].right_
          THEN erase_self_deep_unlink(m, this, p)
          ELSE erase_self_right_unlink(m, this, p)

\* The heap when erase_self reaches 'delete this'.
erase_self(m, this) ==
  IF m[this].left_ = nullptr \/ m[this].right_ = nullptr
  THEN erase_self_leaf(m, this)
  ELSE LET p == inorder_successor(m, this)
       IN IF p # m[this].right_
          THEN erase_self_deep(m, this, p)
          ELSE erase_self_right(m, this, p)

\* The calls of balance_left and balance_right that erase_self makes, itself
\* and through balance_above, and the heap at the point of 'delete this'.
erase_self_calls(m, this) ==
  LET u == erase_self_unlink(m, this)
  IN IF ~u.called THEN [m |-> u.m, log |-> <<>>]
     ELSE LET c == balance_call(u.m, u.a, u.left)
          IN balance_above_calls(c.after, c.ret, -1, <<c>>, MaxNodes + 1)

\* delete p: the cell goes back to the allocator.
Delete(m, p) == [m EXCEPT ![p] = FreeCell]

\* Mutant of SwapSize: the sizes are exchanged by sum and difference, which
\* loses the value when p and q are the same node.
SwapSize_by_difference(m, p, q) ==
  LET m1 == [m EXCEPT ![p].size_ = m[p].size_ + m[q].size_]
      m2 == [m1 EXCEPT ![q].size_ = m1[p].size_ - m1[q].size_]
  IN [m2 EXCEPT ![p].size_ = m2[p].size_ - m2[q].size_]

\* Mutant of SwapSize: the sizes stay with the nodes.
SwapSize_omitted(m, p, q) == m

\* std::swap(p->f, q->f) for the fields f of node.
SwapSize(m, p, q) == [m EXCEPT ![p].size_ = m[q].size_, ![q].size_ = m[p].size_]

SwapLeft(m, p, q) == [m EXCEPT ![p].left_ = m[q].left_, ![q].left_ = m[p].left_]

SwapRight(m, p, q) ==
  [m EXCEPT ![p].right_ = m[q].right_, ![q].right_ = m[p].right_]

SwapParent(m, p, q) ==
  [m EXCEPT ![p].parent_ = m[q].parent_, ![q].parent_ = m[p].parent_]

\* std::swap(owner(p), owner(q)): both references are taken, then exchanged.
SwapOwner(m, p, q) ==
  LET rp == owner(m, p)
      rq == owner(m, q)
      tmp == Deref(m, rp)
      m1 == Assign(m, rp, Deref(m, rq))
  IN Assign(m1, rq, tmp)

\* Mutant of exchange_parent_child: the other children of p and q are not
\* exchanged when q is the left child.
exchange_parent_child_no_swap_right(m, p, q) ==
  LET m1 == Assign(m, owner(m, p), q)
      m2 == [m1 EXCEPT ![q].parent_ = m1[p].parent_]
      m3 == [m2 EXCEPT ![p].parent_ = q]
  IN IF q = m3[p].left_
     THEN LET m4 == [m3 EXCEPT ![p].left_ = m3[q].left_]
              m5 == [m4 EXCEPT ![q].left_ = p]
              m7 == SetParentIf(m5, m5[p].left_, p)
              m8 == SetParentIf(m7, m7[p].right_, p)
          IN SetParentIf(m8, m8[q].right_, q)
     ELSE LET m4 == [m3 EXCEPT ![p].right_ = m3[q].right_]
              m5 == [m4 EXCEPT ![q].right_ = p]
              m6 == SwapLeft(m5, p, q)
              m7 == SetParentIf(m6, m6[p].left_, p)
              m8 == SetParentIf(m7, m7[p].right_, p)
          IN SetParentIf(m8, m8[q].left_, q)

\* Mutant of exchange_parent_child: the other children of p and q are not
\* exchanged when q is the right child.
exchange_parent_child_no_swap_left(m, p, q) ==
  LET m1 == Assign(m, owner(m, p), q)
      m2 == [m1 EXCEPT ![q].parent_ = m1[p].parent_]
      m3 == [m2 EXCEPT ![p].parent_ = q]
  IN IF q = m3[p].left_
     THEN LET m4 == [m3 EXCEPT ![p].left_ = m3[q].left_]
              m5 == [m4 EXCEPT ![q].left_ = p]
              m6 == SwapRight(m5, p, q)
              m7 == SetParentIf(m6, m6[p].left_, p)
              m8 == SetParentIf(m7, m7[p].right_, p)
          IN SetParentIf(m8, m8[q].right_, q)
     ELSE LET m4 == [m3 EXCEPT ![p].right_ = m3[q].right_]
              m5 == [m4 EXCEPT ![q].right_ = p]
              m7 == SetParentIf(m5, m5[p].left_, p)
              m8 == SetParentIf(m7, m7[p].right_, p)
          IN SetParentIf(m8, m8[q].left_, q)

\* if (q->parent_ == p): q is a child of p.
exchange_parent_child(m, p, q) ==
  LET m1 == Assign(m, owner(m, p), q)
      m2 == [m1 EXCEPT ![q].parent_ = m1[p].parent_]
      m3 == [m2 EXCEPT ![p].parent_ = q]
  IN IF q = m3[p].left_
     THEN LET m4 == [m3 EXCEPT ![p].left_ = m3[q].left_]
              m5 == [m4 EXCEPT ![q].left_ = p]
              m6 == SwapRight(m5, p, q)
              m7 == SetParentIf(m6, m6[p].left_, p)
              m8 == SetParentIf(m7, m7[p].right_, p)
          IN SetParentIf(m8, m8[q].right_, q)
     ELSE LET m4 == [m3 EXCEPT ![p].right_ = m3[q].right_]
              m5 == [m4 EXCEPT ![q].right_ = p]
              m6 == SwapLeft(m5, p, q)
              m7 == SetParentIf(m6, m6[p].left_, p)
              m8 == SetParentIf(m7, m7[p].right_, p)
          IN SetParentIf(m8, m8[q].left_, q)

\* else: neither is the parent of the other.
exchange_unrelated(m, p, q) ==
  LET m1 == SwapOwner(m, p, q)
      m2 == SwapParent(m1, p, q)
      m3 == SwapLeft(m2, p, q)
      m4 == SwapRight(m3, p, q)
      m5 == SetParentIf(m4, m4[p].left_, p)
      m6 == SetParentIf(m5, m5[p].right_, p)
      m7 == SetParentIf(m6, m6[q].left_, q)
  IN SetParentIf(m7, m7[q].right_, q)

\* Mutant of exchange_nodes: the payloads are swapped, the links are kept.
exchange_nodes_swap_values(m, p0, q0) ==
  [m EXCEPT ![p0].value_ = m[q0].value_, ![q0].value_ = m[p0].value_]

exchange_nodes(m, p0, q0) ==
  LET m1 == SwapSize(m, p0, q0)
      \* if (p->parent_ == q) { std::swap(p, q); }
      p == IF m1[p0].parent_ = q0 THEN q0 ELSE p0
      q == IF m1[p0].parent_ = q0 THEN p0 ELSE q0
  IN IF m1[q].parent_ = p
     THEN exchange_parent_child(m1, p, q)
     ELSE exchange_unrelated(m1, p, q)

\* Bound on the iterations of delete_subtree's loop that are followed.
LoopFuel == 2 * MaxNodes + 2

RECURSIVE delete_loop(_, _, _, _, _)
\* while (p != this) { q = postorder_successor(p); delete p; p = q; }
\* then delete this.  Yields the addresses deleted, in order.
delete_loop(m, this, p, log, fuel) ==
  IF p = this THEN [log |-> Append(log, this), terminated |-> TRUE]
  ELSE IF fuel = 0 THEN [log |-> log, terminated |-> FALSE]
  ELSE delete_loop(m, this, postorder_successor(m, p), Append(log, p), fuel - 1)

delete_subtree(m, this) == delete_loop(m, this, Leftmost(m, this), <<>>, LoopFuel)

RECURSIVE lower_bound_node_le(_, _, _)
\* Mutant of lower_bound_node: the test is cmp <= 0.
lower_bound_node_le(m, p, cmp) ==
  IF cmp[m[p].value_] <= 0
  THEN IF m[p].right_ # nullptr
       THEN lower_bound_node_le(m, m[p].right_, cmp)
       ELSE inorder_successor(m, p)
  ELSE IF m[p].left_ # nullptr
       THEN lower_bound_node_le(m, m[p].left_, cmp)
       ELSE p

RECURSIVE lower_bound_node_no_successor(_, _, _)
\* Mutant of lower_bound_node: with nothing to the right it answers p.
lower_bound_node_no_successor(m, p, cmp) ==
  IF cmp[m[p].value_] < 0
  THEN IF m[p].right_ # nullptr
       THEN lower_bound_node_no_successor(m, m[p].right_, cmp)
       ELSE p
  ELSE IF m[p].left_ # nullptr
       THEN lower_bound_node_no_successor(m, m[p].left_, cmp)
       ELSE p

RECURSIVE lower_bound_node(_, _, _)
lower_bound_node(m, p, cmp) ==
  IF cmp[m[p].value_] < 0
  THEN IF m[p].right_ # nullptr
       THEN lower_bound_node(m, m[p].right_, cmp)
       ELSE inorder_successor(m, p)
  ELSE IF m[p].left_ # nullptr
       THEN lower_bound_node(m, m[p].left_, cmp)
       ELSE p

RECURSIVE upper_bound_node_lt(_, _, _)
\* Mutant of upper_bound_node: the test is cmp < 0.
upper_bound_node_lt(m, p, cmp) ==
  IF cmp[m[p].value_] < 0
  THEN IF m[p].right_ # nullptr
       THEN upper_bound_node_lt(m, m[p].right_, cmp)
       ELSE inorder_successor(m, p)
  ELSE IF m[p].left_ # nullptr
       THEN upper_bound_node_lt(m, m[p].left_, cmp)
       ELSE p

RECURSIVE upper_bound_node_no_successor(_, _, _)
\* Mutant of upper_bound_node: with nothing to the right it answers p.
upper_bound_node_no_successor(m, p, cmp) ==
  IF cmp[m[p].value_] <= 0
  THEN IF m[p].right_ # nullptr
       THEN upper_bound_node_no_successor(m, m[p].right_, cmp)
       ELSE p
  ELSE IF m[p].left_ # nullptr
       THEN upper_bound_node_no_successor(m, m[p].left_, cmp)
       ELSE p

RECURSIVE upper_bound_node(_, _, _)
upper_bound_node(m, p, cmp) ==
  IF cmp[m[p].value_] <= 0
  THEN IF m[p].right_ # nullptr
       THEN upper_bound_node(m, m[p].right_, cmp)
       ELSE inorder_successor(m, p)
  ELSE IF m[p].left_ # nullptr
       THEN upper_bound_node(m, m[p].left_, cmp)
       ELSE p

RECURSIVE equal_range_nodes(_, _, _)
\* The pair (lower bound, upper bound) for one comparator.  One descent is
\* shared while both bounds lie on the same side of p; at a node with
\* cmp == 0 the lower bound is sought in the left subtree and the upper
\* bound in the right subtree.
equal_range_nodes(m, p, cmp) ==
  IF cmp[m[p].value_] < 0
  THEN IF m[p].right_ # nullptr
       THEN equal_range_nodes(m, m[p].right_, cmp)
       ELSE <<inorder_successor(m, p), inorder_successor(m, p)>>
  ELSE IF cmp[m[p].value_] > 0
  THEN IF m[p].left_ # nullptr
       THEN equal_range_nodes(m, m[p].left_, cmp)
       ELSE <<p, p>>
  ELSE <<IF m[p].left_ # nullptr
         THEN lower_bound_node(m, m[p].left_, cmp)
         ELSE p,
         IF m[p].right_ # nullptr
         THEN upper_bound_node(m, m[p].right_, cmp)
         ELSE inorder_successor(m, p)>>

\* The pair (lower bound for lcmp, upper bound for rcmp).
range_between_nodes(m, p, lcmp, rcmp) ==
  <<lower_bound_node(m, p, lcmp), upper_bound_node(m, p, rcmp)>>

\* ------------------------------------------------------------ tree facade

tree_begin(m) == Leftmost(m, sentinel)

tree_end == sentinel

empty(m) == m[sentinel].left_ = nullptr

tree_size(m) == IF empty(m) THEN 0 ELSE m[m[sentinel].left_].size_

lower_bound(m, cmp) ==
  IF m[sentinel].left_ # nullptr
  THEN lower_bound_node(m, m[sentinel].left_, cmp)
  ELSE sentinel

upper_bound(m, cmp) ==
  IF m[sentinel].left_ # nullptr
  THEN upper_bound_node(m, m[sentinel].left_, cmp)
  ELSE sentinel

equal_range(m, cmp) ==
  IF m[sentinel].left_ # nullptr
  THEN equal_range_nodes(m, m[sentinel].left_, cmp)
  ELSE <<sentinel, sentinel>>

\* Mutant of range_between: on an empty tree it answers iterators made from
\* the null root pointer.
range_between_null_when_empty(m, lcmp, rcmp) ==
  IF m[sentinel].left_ # nullptr
  THEN range_between_nodes(m, m[sentinel].left_, lcmp, rcmp)
  ELSE <<m[sentinel].left_, m[sentinel].left_>>

range_between(m, lcmp, rcmp) ==
  IF m[sentinel].left_ # nullptr
  THEN range_between_nodes(m, m[sentinel].left_, lcmp, rcmp)
  ELSE <<sentinel, sentinel>>

\* The address operator new hands out: a cell that is not live.
operator_new(alive) ==
  CHOOSE a \in NodeIds \ alive : \A b \in NodeIds \ alive : a <= b

RECURSIVE Iterate(_, _, _, _)
\* for (iter = begin(); iter != end(); ++iter): the nodes visited, in order.
\* The walk is abandoned after 'fuel' increments.
Iterate(m, iter, visited, fuel) ==
  IF iter = tree_end \/ fuel = 0 THEN visited
  ELSE Iterate(m, inorder_successor(m, iter), Append(visited, iter), fuel - 1)

Traversal(m) == Iterate(m, tree_begin(m), <<>>, MaxNodes + 1)

\* ----------------------------------------------------------------- harness
\* The values the harness stores: the l-th insertion stores l.
Values == 0..(MaxInsertions - 1)

Sign == {-1, 0, 1}

\* The values of the first n nodes of a sequence of nodes.
ValuesOf(m, seq, from, to) == {m[seq[k]].value_ : k \in from..to}

\* The comparator that is negative on the first i elements of the sequence,
\* zero on the next j - i and positive on everything else.
PartitionCmp(m, seq, i, j) ==
  [v \in Values |->
     IF v \in ValuesOf(m, seq, 1, i) THEN -1
     ELSE IF v \in ValuesOf(m, seq, i + 1, j) THEN 0
     ELSE 1]

\* A comparator that cannot be evaluated at any value.
Uncallable == <<>>

\* The comparators the harness searches with: every partition of the
\* sequence; on an empty tree, the comparator that cannot be evaluated.
Comparators(m) ==
  LET seq == Traversal(m)
  IN IF empty(m) THEN {Uncallable}
     ELSE {PartitionCmp(m, seq, i, j) : i \in 0..Len(seq), j \in 0..Len(seq)}

\* The precondition of the searches: cmp is -1 on [begin, i), 0 on [i, j)
\* and +1 on [j, end).
Partitioned(m, cmp) ==
  LET seq == Traversal(m)
  IN \A a, b \in 1..Len(seq) :
       a < b => cmp[m[seq[a]].value_] <= cmp[m[seq[b]].value_]

NoCall ==
  [name |-> "none", pos |-> nullptr, pos2 |-> nullptr, value |-> 0,
   value2 |-> 0, steps |-> 0,
   cmp |-> <<>>, cmp2 |-> <<>>, ret |-> nullptr, ret2 |-> nullptr,
   freed |-> <<>>, terminated |-> TRUE,
   before |-> <<>>, beforeLive |-> {}]

Init ==
  /\ mem = [a \in Addresses |-> IF a = sentinel THEN SentinelCell ELSE FreeCell]
  /\ live = {}
  /\ insertions = 0
  /\ deletions = 0
  /\ call = NoCall

\* iterator insert(iterator position, U &&value)
Insert(position, value) ==
  /\ call.name = "none"
  /\ NodeIds \ live # {}
  /\ LET new == operator_new(live)
         r == insert_before_self(mem, position, value, new)
     IN /\ mem' = r.m
        /\ live' = live \cup {new}
        /\ call' = [NoCall EXCEPT !.name = "insert", !.pos = position,
                      !.value = value, !.ret = r.p, !.before = mem,
                      !.beforeLive = live]
  /\ insertions' = insertions + 1
  /\ UNCHANGED deletions

\* iterator erase(iterator position)
Erase(position) ==
  /\ call.name = "none"
  /\ LET result == inorder_successor(mem, position)
         m1 == erase_self(mem, position)
     IN /\ mem' = Delete(m1, position)
        /\ call' = [NoCall EXCEPT !.name = "erase", !.pos = position,
                      !.ret = result, !.freed = <<position>>,
                      !.before = mem, !.beforeLive = live]
  /\ live' = live \ {position}
  /\ deletions' = deletions + 1
  /\ UNCHANGED insertions

\* void exchange_elements(iterator i, iterator j)
ExchangeElements(i, j) ==
  /\ call.name = "none"
  /\ mem' = exchange_nodes(mem, i, j)
  /\ call' = [NoCall EXCEPT !.name = "exchange", !.pos = i, !.pos2 = j,
                !.before = mem, !.beforeLive = live]
  /\ UNCHANGED <<live, insertions, deletions>>

\* iterator lower_bound(Comp &&cmp)
LowerBound(cmp) ==
  /\ call.name = "none"
  /\ Partitioned(mem, cmp)
  /\ call' = [NoCall EXCEPT !.name = "lower_bound", !.cmp = cmp,
                !.ret = lower_bound(mem, cmp)]
  /\ UNCHANGED <<mem, live, insertions, deletions>>

\* iterator upper_bound(Comp &&cmp)
UpperBound(cmp) ==
  /\ call.name = "none"
  /\ Partitioned(mem, cmp)
  /\ call' = [NoCall EXCEPT !.name = "upper_bound", !.cmp = cmp,
                !.ret = upper_bound(mem, cmp)]
  /\ UNCHANGED <<mem, live, insertions, deletions>>

\* std::tuple<iterator, iterator> equal_range(Comp &&cmp)
EqualRange(cmp) ==
  /\ call.name = "none"
  /\ Partitioned(mem, cmp)
  /\ LET r == equal_range(mem, cmp)
     IN call' = [NoCall EXCEPT !.name = "equal_range", !.cmp = cmp,
                   !.ret = r[1], !.ret2 = r[2]]
  /\ UNCHANGED <<mem, live, insertions, deletions>>

\* std::tuple<iterator, iterator> range_between(LComp &&lcmp, RComp &&rcmp)
RangeBetween(lcmp, rcmp) ==
  /\ call.name = "none"
  /\ Partitioned(mem, lcmp)
  /\ Partitioned(mem, rcmp)
  /\ LET r == range_between(mem, lcmp, rcmp)
     IN call' = [NoCall EXCEPT !.name = "range_between", !.cmp = lcmp,
                   !.cmp2 = rcmp, !.ret = r[1], !.ret2 = r[2]]
  /\ UNCHANGED <<mem, live, insertions, deletions>>

RECURSIVE DeleteAll(_, _)
\* The heap after each address of a sequence was passed to delete.
DeleteAll(m, log) ==
  IF log = <<>> THEN m ELSE DeleteAll(Delete(m, Head(log)), Tail(log))

\* ~tree(): the tree is gone afterwards, no call follows.
Destroy ==
  /\ call.name = "none"
  /\ LET p == mem[sentinel].left_
         d == IF p # nullptr
              THEN delete_subtree(mem, p)
              ELSE [log |-> <<>>, terminated |-> TRUE]
     IN /\ mem' = DeleteAll(mem, d.log)
        /\ live' = live \ {d.log[k] : k \in 1..Len(d.log)}
        /\ call' = [NoCall EXCEPT !.name = "destroy", !.freed = d.log,
                      !.terminated = d.terminated, !.before = mem,
                      !.beforeLive = live]
  /\ UNCHANGED <<insertions, deletions>>

\* The values the sorted harness stores and searches for.
SortedValues == 0..MaxSortedValue

\* cmp<T>{a}: x <=> a
make_cmp(a) ==
  [x \in SortedValues |-> IF x < a THEN -1 ELSE IF x = a THEN 0 ELSE 1]

\* dictionary.insert(dictionary.lower_bound(make_cmp(a)), a)
InsertSorted(a) == Insert(lower_bound(mem, make_cmp(a)), a)

\* iter = lower_bound(make_cmp(a)); jter = upper_bound(make_cmp(b)), the loop
\* 'while (iter != jter)' is entered.
EraseRangeBegin(a, b) ==
  /\ call.name = "none"
  /\ a <= b
  /\ call' = [NoCall EXCEPT !.name = "erase_range", !.value = a, !.value2 = b,
                !.ret = lower_bound(mem, make_cmp(a)),
                !.ret2 = upper_bound(mem, make_cmp(b)),
                !.before = mem, !.beforeLive = live]
  /\ UNCHANGED <<mem, live, insertions, deletions>>

\* One turn of the loop: iter = erase(iter); ++deletions.
EraseRangeStep ==
  /\ call.name = "erase_range"
  /\ call.ret # call.ret2
  /\ LET position == call.ret
         result == inorder_successor(mem, position)
         m1 == erase_self(mem, position)
     IN /\ mem' = Delete(m1, position)
        /\ live' = live \ {position}
        /\ call' = [call EXCEPT !.ret = result, !.steps = call.steps + 1,
                      !.freed = Append(call.freed, position)]
  /\ deletions' = deletions + 1
  /\ UNCHANGED insertions

\* The caller is done with what the call returned and goes on; the erase
\* loop is left when iter == jter.
Return ==
  /\ call.name \notin {"none", "destroy"}
  /\ call.name = "erase_range" => call.ret = call.ret2
  /\ call' = NoCall
  /\ UNCHANGED <<mem, live, insertions, deletions>>

\* The harness that builds, rearranges and destroys a tree.
Next ==
  \/ /\ insertions < MaxInsertions
     /\ \E position \in live \cup {sentinel} : Insert(position, insertions)
  \/ \E position \in live : Erase(position)
  \/ \E i \in live, j \in live : ExchangeElements(i, j)
  \/ Destroy
  \/ Return

Spec == Init /\ [][Next]_vars

\* The harness that builds and rearranges a tree and searches it with every
\* comparator that partitions the sequence.
SearchNext ==
  \/ /\ insertions < MaxSearchInsertions
     /\ \E position \in live \cup {sentinel} : Insert(position, insertions)
  \/ \E position \in live : Erase(position)
  \/ \E i \in live, j \in live : ExchangeElements(i, j)
  \/ call.name = "none" /\ \E cmp \in Comparators(mem) : LowerBound(cmp)
  \/ call.name = "none" /\ \E cmp \in Comparators(mem) : UpperBound(cmp)
  \/ call.name = "none" /\ \E cmp \in Comparators(mem) : EqualRange(cmp)
  \/ /\ call.name = "none"
     /\ \E lcmp \in Comparators(mem), rcmp \in Comparators(mem) :
          RangeBetween(lcmp, rcmp)
  \/ Return

SpecSearch == Init /\ [][SearchNext]_vars

\* The harness that only inserts, at any position, and erases.
BalanceNext ==
  \/ /\ insertions < MaxBalanceInsertions
     /\ \E position \in live \cup {sentinel} : Insert(position, insertions)
  \/ \E position \in live : Erase(position)
  \/ Return

SpecBalance == Init /\ [][BalanceNext]_vars

\* The harness that builds and rearranges a tree that is never destroyed; the
\* links and sizes of the nodes are inspected after every call.
ShapeNext ==
  \/ /\ insertions < MaxShapeInsertions
     /\ \E position \in live \cup {sentinel} : Insert(position, insertions)
  \/ \E position \in live : Erase(position)
  \/ \E i \in live, j \in live : ExchangeElements(i, j)
  \/ Return

SpecShape == Init /\ [][ShapeNext]_vars

RECURSIVE BalancedTrees(_, _)
\* Every tree on the nodes lo..hi, in this order, in which every node passes
\* is_balanced on both sides: the root address and the cells, the root's
\* parent_ still unset.
BalancedTrees(lo, hi) ==
  IF lo > hi THEN {[root |-> nullptr, cells |-> <<>>]}
  ELSE UNION {
    UNION {
      { [root |-> k,
         cells |->
           [a \in lo..hi |->
              IF a = k
              THEN [value_ |-> k, size_ |-> hi - lo + 1, left_ |-> L.root,
                    right_ |-> R.root, parent_ |-> nullptr]
              ELSE IF a < k
              THEN IF a = L.root THEN [L.cells[a] EXCEPT !.parent_ = k]
                   ELSE L.cells[a]
              ELSE IF a = R.root THEN [R.cells[a] EXCEPT !.parent_ = k]
                   ELSE R.cells[a]]]
        : R \in BalancedTrees(k + 1, hi) }
      : L \in BalancedTrees(lo, k - 1) }
    : k \in {j \in lo..hi : /\ 3 * (j - lo + 1) >= hi - j + 1
                            /\ 3 * (hi - j + 1) >= j - lo + 1} }

\* The heap that holds the tree t on the nodes 1..n under the sentinel.
Planted(t, n) ==
  [a \in Addresses |->
     IF a = sentinel THEN [SentinelCell EXCEPT !.left_ = t.root]
     ELSE IF a > n THEN FreeCell
     ELSE IF a = t.root THEN [t.cells[a] EXCEPT !.parent_ = sentinel]
     ELSE t.cells[a]]

\* A tree of at most MaxInductiveNodes nodes, every one of which passes
\* is_balanced on both sides, as some earlier calls have left it; the
\* harness counts its own calls from here.
InductiveInit ==
  \E n \in 0..MaxInductiveNodes :
    /\ mem \in {Planted(t, n) : t \in BalancedTrees(1, n)}
    /\ live = 1..n
    /\ insertions = 0
    /\ deletions = 0
    /\ call = NoCall

\* The harness that, to a tree of any balanced shape, applies one insert at
\* any position, or one erase.
InductiveNext ==
  \/ /\ insertions + deletions = 0
     /\ \E position \in live \cup {sentinel} : Insert(position, 0)
  \/ /\ insertions + deletions = 0
     /\ \E position \in live : Erase(position)
  \/ Return

SpecInductive == InductiveInit /\ [][InductiveNext]_vars

\* What the sentinel's size_ field, which no constructor sets, may hold at
\* first: the token for a value that is never looked at, or a number, large
\* enough for the decrements of erase_self not to pass zero.
SentinelSizes == {Indeterminate, MaxNodes}

\* What the sentinel's right_ field may hold at first where the constructor
\* does not set it: nothing, or the address of a cell.
SentinelRights == {nullptr} \cup (1..MaxSentinelRight)

\* The tree after a constructor that sets left_ and parent_ only: size_ and
\* right_ hold what the storage held.
SentinelInit ==
  /\ \E s \in SentinelSizes, r \in SentinelRights :
       mem = [a \in Addresses |->
                IF a = sentinel
                THEN [SentinelCell EXCEPT !.size_ = s, !.right_ = r]
                ELSE FreeCell]
  /\ live = {}
  /\ insertions = 0
  /\ deletions = 0
  /\ call = NoCall

\* The harness that builds and rearranges such a tree.
SentinelNext ==
  \/ /\ insertions < MaxSentinelInsertions
     /\ \E position \in live \cup {sentinel} : Insert(position, insertions)
  \/ \E position \in live : Erase(position)
  \/ \E i \in live, j \in live : ExchangeElements(i, j)
  \/ Return

SpecSentinel == SentinelInit /\ [][SentinelNext]_vars

\* The harness that keeps the tree sorted: every value is inserted at its
\* lower bound; single elements and ranges of values are erased.
SortedNext ==
  \/ /\ insertions < MaxSortedInsertions
     /\ call.name = "none"
     /\ \E a \in SortedValues : InsertSorted(a)
  \/ \E position \in live : Erase(position)
  \/ \E a \in SortedValues, b \in SortedValues : EraseRangeBegin(a, b)
  \/ EraseRangeStep
  \/ Return

SpecSorted == Init /\ [][SortedNext]_vars

\* ------------------------------------------------------------- properties
\* Sequence helpers used to state the properties.
IndexOf(seq, x) ==
  IF \E k \in 1..Len(seq) : seq[k] = x
  THEN CHOOSE k \in 1..Len(seq) : seq[k] = x
  ELSE Len(seq) + 1

InsertAt(seq, k, x) ==
  [n \in 1..(Len(seq) + 1) |->
     IF n < k THEN seq[n] ELSE IF n = k THEN x ELSE seq[n - 1]]

RemoveAt(seq, k) ==
  [n \in 1..(Len(seq) - 1) |-> IF n < k THEN seq[n] ELSE seq[n + 1]]

SwapElements(seq, x, y) ==
  [n \in 1..Len(seq) |->
     IF seq[n] = x THEN y ELSE IF seq[n] = y THEN x ELSE seq[n]]

ValueSeq(m, seq) == [n \in 1..Len(seq) |-> m[seq[n]].value_]

Root(m) == m[sentinel].left_

\* The tree exists: its destructor has not run.
Constructed == call.name # "destroy"

\* The weight-balance condition at node n, on both sides.
WeightBalancedAt(m, n) ==
  /\ 3 * (size(m, m[n].left_) + 1) >= size(m, m[n].right_) + 1
  /\ 3 * (size(m, m[n].right_) + 1) >= size(m, m[n].left_) + 1

\* C1: starting from the empty tree, after any sequence of insert and erase
\* calls (and exchanges, which keep the shape) every real node satisfies the
\* weight-balance condition on both sides.  It holds of every tree built
\* with six insertions or fewer and fails after seven insertions and an
\* erase.
C1_WeightBalance == Constructed => \A n \in live : WeightBalancedAt(mem, n)

\* C2: size() equals the number of inserts minus the number of erases, after
\* any sequence of insert, erase and exchange_elements calls.
C2_SizeIsInsertionsMinusDeletions ==
  Constructed => tree_size(mem) = insertions - deletions

\* An exchange of the root with another node, after inserts and an erase.
C2_Witness ==
  /\ call.name = "exchange"
  /\ call.pos # call.pos2
  /\ Root(call.before) = call.pos
  /\ deletions >= 1
  /\ tree_size(mem) >= 3

\* C3: insert(pos, v) yields the old sequence with the new element placed
\* immediately before pos (at the end when pos == end()); the returned
\* iterator refers to the new element, which holds v and whose inorder
\* successor is pos; the order of the old elements is unchanged.
C3_InsertBefore ==
  call.name = "insert" =>
    LET old == Traversal(call.before)
    IN /\ call.ret \notin call.beforeLive
       /\ call.ret \in live
       /\ mem[call.ret].value_ = call.value
       /\ Traversal(mem) = InsertAt(old, IndexOf(old, call.pos), call.ret)
       /\ inorder_successor(mem, call.ret) = call.pos

\* An insert before a real node that had a left subtree, after which a
\* rotation changed the root.
C3_Witness ==
  /\ call.name = "insert"
  /\ call.pos # sentinel
  /\ call.before[call.pos].left_ # nullptr
  /\ Root(mem) # Root(call.before)
  /\ Len(Traversal(mem)) >= 4

\* C4: erase(pos) yields the old sequence with exactly that element removed
\* and returns an iterator to the element that followed it (end() if it was
\* the last).
C4_EraseRemovesOne ==
  call.name = "erase" =>
    LET old == Traversal(call.before)
        k == IndexOf(old, call.pos)
    IN /\ k <= Len(old)
       /\ Traversal(mem) = RemoveAt(old, k)
       /\ call.ret = IF k = Len(old) THEN tree_end ELSE old[k + 1]
       /\ live = call.beforeLive \ {call.pos}

\* The erased element was the root, had two children, and its successor was
\* not its right child.
C4_Witness ==
  /\ call.name = "erase"
  /\ Root(call.before) = call.pos
  /\ call.before[call.pos].left_ # nullptr
  /\ call.before[call.pos].right_ # nullptr
  /\ call.before[call.before[call.pos].right_].left_ # nullptr

\* C5: for distinct real nodes p and q, exchange_elements(p, q) yields the
\* old sequence with the elements at p's and q's positions swapped; every
\* other element keeps its position and size() is unchanged.
C5_ExchangeSwapsPositions ==
  (call.name = "exchange" /\ call.pos # call.pos2) =>
    /\ Traversal(mem) =
         SwapElements(Traversal(call.before), call.pos, call.pos2)
    /\ tree_size(mem) = tree_size(call.before)

\* The second argument was the root and the first its child, and both had a
\* further child.
C5_Witness ==
  /\ call.name = "exchange"
  /\ call.before[call.pos].parent_ = call.pos2
  /\ Root(call.before) = call.pos2
  /\ call.before[call.pos].size_ >= 2
  /\ call.before[call.pos2].size_ >= 4

\* C6: exchange_elements(i, j) never writes a value: every node holds the
\* same value before and after, and the node i refers to now occupies the
\* position formerly occupied by j's node, and vice versa.
C6_ExchangeKeepsValues ==
  call.name = "exchange" =>
    LET old == Traversal(call.before)
        new == Traversal(mem)
    IN /\ live = call.beforeLive
       /\ \A n \in live : mem[n].value_ = call.before[n].value_
       /\ IndexOf(new, call.pos) = IndexOf(old, call.pos2)
       /\ IndexOf(new, call.pos2) = IndexOf(old, call.pos)
       /\ Len(new) = Len(old)

\* The exchanged nodes were distinct and neither was the other's parent.
C6_Witness ==
  /\ call.name = "exchange"
  /\ call.pos # call.pos2
  /\ call.before[call.pos].parent_ # call.pos2
  /\ call.before[call.pos2].parent_ # call.pos
  /\ call.before[call.pos].parent_ # call.before[call.pos2].parent_

\* C7 as stated: after exchange_elements(i, j), dereferencing i yields the
\* value that was at j's position before the call and dereferencing j the
\* value that was at i's position; no other element's value changes; size()
\* is unchanged.
C7_Original ==
  call.name = "exchange" =>
    /\ mem[call.pos].value_ = call.before[call.pos2].value_
    /\ mem[call.pos2].value_ = call.before[call.pos].value_
    /\ \A n \in live \ {call.pos, call.pos2} :
         mem[n].value_ = call.before[n].value_
    /\ tree_size(mem) = tree_size(call.before)

\* C7 amended: dereferencing i and j yields the same values as before the
\* call; in the sequence, the value formerly at i's position is now at j's
\* former position and vice versa; the value at every other position is
\* unchanged; size() is unchanged.
C7_ExchangeMovesValuesWithNodes ==
  call.name = "exchange" =>
    LET old == Traversal(call.before)
        oldValues == ValueSeq(call.before, old)
        newValues == ValueSeq(mem, Traversal(mem))
        pi == IndexOf(old, call.pos)
        pj == IndexOf(old, call.pos2)
    IN /\ mem[call.pos].value_ = call.before[call.pos].value_
       /\ mem[call.pos2].value_ = call.before[call.pos2].value_
       /\ Len(newValues) = Len(oldValues)
       /\ newValues[pj] = oldValues[pi]
       /\ newValues[pi] = oldValues[pj]
       /\ \A k \in 1..Len(oldValues) :
            k \notin {pi, pj} => newValues[k] = oldValues[k]
       /\ tree_size(mem) = tree_size(call.before)

\* Two distinct elements that were not adjacent in the sequence have been
\* exchanged.
C7_Witness ==
  /\ call.name = "exchange"
  /\ LET old == Traversal(call.before)
     IN IndexOf(old, call.pos) + 1 < IndexOf(old, call.pos2)
  /\ tree_size(mem) >= 4

\* C8: destroying a tree frees each of its nodes exactly once (none left
\* unfreed, none freed twice) and the destruction loop terminates.
C8_DestroyFreesAll ==
  call.name = "destroy" =>
    /\ call.terminated
    /\ \A n \in call.beforeLive :
         Cardinality({k \in 1..Len(call.freed) : call.freed[k] = n}) = 1
    /\ \A k \in 1..Len(call.freed) : call.freed[k] \in call.beforeLive

\* The first element x of the sequence with cmp(x) >= bound, or end().
FirstAtLeast(m, cmp, bound) ==
  LET seq == Traversal(m)
      hits == {k \in 1..Len(seq) : cmp[m[seq[k]].value_] >= bound}
  IN IF hits = {} THEN tree_end
     ELSE seq[CHOOSE k \in hits : \A h \in hits : k <= h]

\* C9: if the sequence is partitioned by cmp, lower_bound(cmp) returns the
\* first element x with cmp(x) >= 0, or end() if there is none.
C9_LowerBound ==
  call.name = "lower_bound" => call.ret = FirstAtLeast(mem, call.cmp, 0)

\* A lower_bound on a tree whose sequence has elements below, equal to and
\* above the bound, answered by a node other than the root.
C9_Witness ==
  /\ call.name = "lower_bound"
  /\ call.ret \notin {sentinel, Root(mem)}
  /\ \A s \in Sign : \E n \in live : call.cmp[mem[n].value_] = s

\* C10: if the sequence is partitioned by cmp, upper_bound(cmp) returns the
\* first element x with cmp(x) > 0, or end() if there is none.
C10_UpperBound ==
  call.name = "upper_bound" => call.ret = FirstAtLeast(mem, call.cmp, 1)

\* An upper_bound on a tree whose sequence has elements below, equal to and
\* above the bound, answered by a node other than the root.
C10_Witness ==
  /\ call.name = "upper_bound"
  /\ call.ret \notin {sentinel, Root(mem)}
  /\ \A s \in Sign : \E n \in live : call.cmp[mem[n].value_] = s

RECURSIVE RangeWalk(_, _, _, _, _)
\* for (iter = first; iter != last; ++iter): the nodes visited, and whether
\* last was reached within 'fuel' increments.
RangeWalk(m, iter, last, visited, fuel) ==
  IF iter = last THEN [nodes |-> visited, reached |-> TRUE]
  ELSE IF fuel = 0 THEN [nodes |-> visited, reached |-> FALSE]
  ELSE RangeWalk(m, inorder_successor(m, iter), last,
                 Append(visited, iter), fuel - 1)

\* The half-open range [first, last) as a sequence of nodes.
Range(m, first, last) == RangeWalk(m, first, last, <<>>, MaxNodes + 1)

\* The half-open range [first, last) is well formed and holds exactly the
\* elements of the tree that satisfy Wanted.
RangeHoldsExactly(m, first, last, Wanted(_)) ==
  LET r == Range(m, first, last)
      seq == Traversal(m)
  IN /\ r.reached
     /\ \A k \in 1..Len(r.nodes) : r.nodes[k] \in live
     /\ {r.nodes[k] : k \in 1..Len(r.nodes)} =
          {seq[k] : k \in {h \in 1..Len(seq) : Wanted(m[seq[h]].value_)}}
     /\ Len(r.nodes) = Cardinality({r.nodes[k] : k \in 1..Len(r.nodes)})

\* C11: under the partition precondition, equal_range(cmp) returns the pair
\* (lower_bound(cmp), upper_bound(cmp)), and the half-open range between the
\* two holds exactly the elements x with cmp(x) == 0.
C11_EqualRange ==
  call.name = "equal_range" =>
    LET IsEqual(x) == call.cmp[x] = 0
    IN /\ call.ret = lower_bound(mem, call.cmp)
       /\ call.ret2 = upper_bound(mem, call.cmp)
       /\ RangeHoldsExactly(mem, call.ret, call.ret2, IsEqual)

\* An equal_range whose comparator is zero at the root and at two more
\* elements, with elements below and above, so that the two bounds were
\* found in different subtrees.
C11_Witness ==
  /\ call.name = "equal_range"
  /\ ~empty(mem)
  /\ call.cmp[mem[Root(mem)].value_] = 0
  /\ Len(Range(mem, call.ret, call.ret2).nodes) >= 2
  /\ call.ret # tree_begin(mem)
  /\ call.ret2 # tree_end

\* What C12 promises of a range_between(lcmp, rcmp) call: the result is
\* (lower_bound(lcmp), upper_bound(rcmp)) and the half-open range between
\* the two holds exactly the elements x with lcmp(x) >= 0 and rcmp(x) <= 0.
RangeBetweenResult ==
  LET IsBetween(x) == call.cmp[x] >= 0 /\ call.cmp2[x] <= 0
  IN /\ call.ret = lower_bound(mem, call.cmp)
     /\ call.ret2 = upper_bound(mem, call.cmp2)
     /\ RangeHoldsExactly(mem, call.ret, call.ret2, IsBetween)

C13_IterationVisitsAll ==
  Constructed =>
    LET walk == Range(mem, tree_begin(mem), tree_end)
    IN /\ walk.reached
       /\ Len(walk.nodes) = tree_size(mem)
       /\ {walk.nodes[k] : k \in 1..Len(walk.nodes)} = live
       /\ \A j, k \in 1..Len(walk.nodes) :
            walk.nodes[j] = walk.nodes[k] => j = k

\* A tree of four elements or more, reached through an erase and an
\* exchange, in which the increment from some node without a right child
\* climbs past that node's parent to a real node.
C13_Witness ==
  /\ call.name = "exchange"
  /\ deletions >= 1
  /\ tree_size(mem) >= 4
  /\ \E n \in live :
       /\ mem[n].right_ = nullptr
       /\ inorder_successor(mem, n) \notin {mem[n].parent_, sentinel}

\* The nodes that were in the tree before the call and were not erased.
Survivors ==
  IF call.name = "erase" THEN call.beforeLive \ {call.pos} ELSE call.beforeLive

\* C14: insert and erase never move a value between nodes: every node that
\* existed before the call and was not the erased node is still in the
\* tree, holds the same value as before, and keeps its order relative to
\* all other surviving nodes.
C14_InsertEraseFrame ==
  call.name \in {"insert", "erase"} =>
    LET old == Traversal(call.before)
        new == Traversal(mem)
    IN /\ Survivors \subseteq live
       /\ \A n \in Survivors :
            /\ mem[n].value_ = call.before[n].value_
            /\ IndexOf(new, n) <= Len(new)
       /\ \A a, b \in Survivors :
            IndexOf(old, a) < IndexOf(old, b) =>
              IndexOf(new, a) < IndexOf(new, b)

\* An erase of a node with two children whose successor was not its right
\* child and has been relinked into the erased node's place.
C14_Witness ==
  /\ call.name = "erase"
  /\ call.before[call.pos].left_ # nullptr
  /\ call.before[call.pos].right_ # nullptr
  /\ call.before[call.before[call.pos].right_].left_ # nullptr
  /\ mem[call.ret].left_ = call.before[call.pos].left_
  /\ mem[call.ret].parent_ = call.before[call.pos].parent_

\* The elements of a sequence of nodes, as a set.
Elements(seq) == {seq[k] : k \in 1..Len(seq)}

\* C15: on a sorted tree, with iter = lower_bound for a and jter =
\* upper_bound for b (a <= b), the loop 'while (iter != jter) iter =
\* erase(iter)' terminates with iter == jter (the distance from iter to jter
\* drops by one with every erase), jter stays a valid iterator throughout,
\* exactly the elements with value in [a, b] are removed, and size() drops
\* by exactly one per erase.
C15_EraseRangeLoop ==
  call.name = "erase_range" =>
    LET old == Traversal(call.before)
        InRange(n) ==
          /\ call.value <= call.before[n].value_
          /\ call.before[n].value_ <= call.value2
        wanted == {n \in call.beforeLive : InRange(n)}
        erased == Elements(call.freed)
        rest == Range(mem, call.ret, call.ret2)
        Kept(n) == n \notin wanted
    IN /\ call.ret2 \in live \cup {sentinel}
       /\ call.ret2 # sentinel =>
            mem[call.ret2].value_ = call.before[call.ret2].value_
       /\ rest.reached
       /\ Len(rest.nodes) + call.steps = Cardinality(wanted)
       /\ erased \cup Elements(rest.nodes) = wanted
       /\ live = call.beforeLive \ erased
       /\ tree_size(mem) = tree_size(call.before) - call.steps
       /\ call.ret = call.ret2 =>
            /\ erased = wanted
            /\ Traversal(mem) = SelectSeq(old, Kept)

\* The loop has ended after two erases or more, elements remain on both
\* sides of the erased range, and jter's node was relinked on the way.
C15_Witness ==
  /\ call.name = "erase_range"
  /\ call.ret = call.ret2
  /\ call.steps >= 2
  /\ call.ret2 # sentinel
  /\ call.ret2 # tree_begin(mem)
  /\ mem[call.ret2].parent_ # call.before[call.ret2].parent_
  /\ mem[call.ret2].left_ # call.before[call.ret2].left_

\* C16: if every value v is inserted as insert(lower_bound(cmp_v), v) with
\* cmp_v(x) = sign(x compared to v), then after any interleaving of such
\* insertions with erases the sequence from begin() to end() is in
\* nondecreasing order.
C16_SortedOrder ==
  LET values == ValueSeq(mem, Traversal(mem))
  IN /\ Len(values) = Cardinality(live)
     /\ \A k \in 1..(Len(values) - 1) : values[k] <= values[k + 1]

\* After an erase, a value already in the tree has been inserted before its
\* first occurrence, which was neither the first nor the last element.
C16_Witness ==
  /\ call.name = "insert"
  /\ deletions >= 1
  /\ call.pos # sentinel
  /\ mem[call.pos].value_ = call.value
  /\ call.pos # tree_begin(call.before)
  /\ inorder_successor(mem, call.pos) # sentinel
  /\ tree_size(mem) >= 4

\* C17: for every tree reachable by inserts, erases and exchanges, the empty
\* tree included, decrementing begin() yields end().
C17_PrevBeginIsEnd ==
  Constructed => inorder_predecessor(mem, tree_begin(mem)) = tree_end

\* After an erase, the first element of a tree of three elements or more is
\* not the root, so that the decrement climbs.
C17_Witness ==
  /\ call.name = "erase"
  /\ tree_size(mem) >= 3
  /\ mem[tree_begin(mem)].parent_ # sentinel
  /\ mem[mem[tree_begin(mem)].parent_].parent_ # sentinel

RECURSIVE BackWalk(_, _, _, _, _)
\* while (iter != first) { --iter; visit iter }: the nodes visited, and
\* whether first was reached within 'fuel' decrements.
BackWalk(m, iter, first, visited, fuel) ==
  IF iter = first THEN [nodes |-> visited, reached |-> TRUE]
  ELSE IF fuel = 0 THEN [nodes |-> visited, reached |-> FALSE]
  ELSE LET prev == inorder_predecessor(m, iter)
       IN BackWalk(m, prev, first, Append(visited, prev), fuel - 1)

Reverse(seq) == [k \in 1..Len(seq) |-> seq[Len(seq) + 1 - k]]

\* C18: for every non-empty reachable tree, decrementing from end() reaches
\* begin() after exactly size() decrements and visits the nodes of the
\* forward traversal in reverse order; inorder_predecessor undoes
\* inorder_successor at every real node, and inorder_successor undoes
\* inorder_predecessor at every real node but the first and at end().
C18_BackwardMirrorsForward ==
  (Constructed /\ ~empty(mem)) =>
    LET forward == Range(mem, tree_begin(mem), tree_end)
        backward == BackWalk(mem, tree_end, tree_begin(mem), <<>>, MaxNodes + 1)
    IN /\ forward.reached
       /\ backward.reached
       /\ Len(backward.nodes) = tree_size(mem)
       /\ backward.nodes = Reverse(forward.nodes)
       /\ \A n \in live :
            inorder_predecessor(mem, inorder_successor(mem, n)) = n
       /\ \A n \in (live \ {tree_begin(mem)}) \cup {tree_end} :
            inorder_successor(mem, inorder_predecessor(mem, n)) = n

\* After an exchange, some node without a left child is decremented by
\* climbing two levels or more to a real node.
C18_Witness ==
  /\ call.name = "exchange"
  /\ call.pos # call.pos2
  /\ \E n \in live :
       /\ mem[n].left_ = nullptr
       /\ mem[n].parent_ # sentinel
       /\ n = mem[mem[n].parent_].left_
       /\ mem[mem[n].parent_].parent_ # sentinel
       /\ mem[n].parent_ = mem[mem[mem[n].parent_].parent_].left_
       /\ inorder_predecessor(mem, n) # sentinel

\* C19: on an empty tree lower_bound, upper_bound, equal_range and
\* range_between never evaluate the comparator or descend (they are handed
\* comparators that cannot be evaluated): the single-bound searches return
\* end() and the range searches return (end(), end()).
C19_EmptyTreeSearch ==
  (/\ call.name \in {"lower_bound", "upper_bound", "equal_range", "range_between"}
   /\ empty(mem))
    => /\ DOMAIN call.cmp = {}
       /\ DOMAIN call.cmp2 = {}
       /\ call.ret = tree_end
       /\ call.name \in {"equal_range", "range_between"} =>
            call.ret2 = tree_end

\* A range_between on a tree that elements were inserted into and erased
\* from until it was empty again.
C19_Witness ==
  /\ call.name = "range_between"
  /\ empty(mem)
  /\ deletions >= 2

\* C20: a default-constructed tree is empty with size() == 0 and begin() ==
\* end(); in every reachable state empty() holds iff size() == 0 iff
\* begin() == end() iff the sentinel has no left child; erasing the last
\* remaining element returns the tree to the empty state.
C20_EmptyEquivalences ==
  Constructed =>
    /\ (insertions = 0 /\ deletions = 0) =>
         (empty(mem) /\ tree_size(mem) = 0 /\ tree_begin(mem) = tree_end)
    /\ empty(mem) <=> tree_size(mem) = 0
    /\ empty(mem) <=> tree_begin(mem) = tree_end
    /\ empty(mem) <=> mem[sentinel].left_ = nullptr
    /\ empty(mem) <=> live = {}
    /\ (call.name = "erase" /\ tree_size(call.before) = 1) =>
         (empty(mem) /\ mem[sentinel] = SentinelCell)

\* The only element left after several insertions and erases has been
\* erased.
C20_Witness ==
  /\ call.name = "erase"
  /\ tree_size(call.before) = 1
  /\ insertions >= 3
  /\ empty(mem)

RECURSIVE Reachable(_, _, _)
\* The nodes reached from p through left_ and right_ links, following at
\* most 'fuel' links on a path.
Reachable(m, p, fuel) ==
  IF p = nullptr \/ fuel = 0 THEN {}
  ELSE {p} \cup Reachable(m, m[p].left_, fuel - 1)
           \cup Reachable(m, m[p].right_, fuel - 1)

\* The real nodes reachable from the sentinel.
TreeNodes(m) == Reachable(m, m[sentinel].left_, MaxNodes + 1)

\* C21: after every insert, erase and exchange_elements every real node n
\* satisfies n.size == size(n.left) + size(n.right) + 1, with size(absent)
\* = 0; the root's cached size equals the number of real nodes reachable
\* from the sentinel.
C21_SizeInvariant ==
  /\ \A n \in live :
       mem[n].size_ = size(mem, mem[n].left_) + size(mem, mem[n].right_) + 1
  /\ tree_size(mem) = Cardinality(TreeNodes(mem))

\* An erase of a node with two children, in a tree of five nodes, has just
\* put another node at the root.
C21_Witness ==
  /\ call.name = "erase"
  /\ tree_size(call.before) >= 5
  /\ call.before[call.pos].left_ # nullptr
  /\ call.before[call.pos].right_ # nullptr
  /\ Root(mem) # Root(call.before)

\* C22: after every insert, erase and exchange_elements, for every real
\* node n exactly one of n.parent.left == n and n.parent.right == n holds,
\* and for every node m, the sentinel included, each child c of m has
\* c.parent == m.
C22_LinksConsistent ==
  /\ \A n \in live :
       (mem[mem[n].parent_].left_ = n) # (mem[mem[n].parent_].right_ = n)
  /\ \A n \in live \cup {sentinel} :
       /\ mem[n].left_ # nullptr => mem[mem[n].left_].parent_ = n
       /\ mem[n].right_ # nullptr => mem[mem[n].right_].parent_ = n

\* A double rotation has just made a grandchild of the old root the new
\* root, in a tree whose old root had two children.
C22_Witness ==
  /\ call.name \in {"insert", "erase"}
  /\ ~empty(call.before)
  /\ ~empty(mem)
  /\ call.before[Root(call.before)].left_ # nullptr
  /\ call.before[Root(call.before)].right_ # nullptr
  /\ Root(mem) \in call.beforeLive
  /\ call.before[Root(mem)].parent_ # sentinel
  /\ call.before[call.before[Root(mem)].parent_].parent_ = Root(call.before)

\* C23: in every reachable state the sentinel is the only self-parented
\* node, its parent is itself, its right child is absent, and its left
\* child is the real root or absent.
C23_SentinelInvariant ==
  /\ \A n \in live : mem[n].parent_ # n
  /\ mem[sentinel].parent_ = sentinel
  /\ mem[sentinel].right_ = nullptr
  /\ \/ mem[sentinel].left_ = nullptr /\ live = {}
     \/ /\ mem[sentinel].left_ \in live
        /\ mem[mem[sentinel].left_].parent_ = sentinel
        /\ \A n \in live \ {mem[sentinel].left_} : mem[n].parent_ \in live

\* The root has just been exchanged with one of its children.
C23_Witness ==
  /\ call.name = "exchange"
  /\ Root(call.before) \in {call.pos, call.pos2}
  /\ Root(mem) \in {call.pos, call.pos2}
  /\ Root(mem) # Root(call.before)
  /\ call.before[Root(mem)].parent_ = Root(call.before)

\* Every node of the heap m that is in the set s is weight-balanced.
AllWeightBalanced(m, s) == \A n \in s : WeightBalancedAt(m, n)

\* C24: for every tree in which all nodes satisfy the weight-balance
\* condition and every real node x of it, after erase_self(x) every
\* remaining node satisfies the weight-balance condition on both sides.
\* It fails for a tree of seven nodes.
C24_EraseKeepsBalance ==
  (call.name = "erase" /\ AllWeightBalanced(call.before, call.beforeLive))
    => AllWeightBalanced(mem, live)

\* C25: for every tree in which all nodes satisfy the weight-balance
\* condition and every insertion position, a real node or the sentinel,
\* after insert_before_self followed by balance_above(+1) every node
\* satisfies the weight-balance condition on both sides.
C25_InsertKeepsBalance ==
  (call.name = "insert" /\ AllWeightBalanced(call.before, call.beforeLive))
    => AllWeightBalanced(mem, live)

\* An insert into a balanced tree of six nodes has just been followed by a
\* double rotation: a node that was there before is now the child of what
\* was its grandchild.
C25_Witness ==
  /\ call.name = "insert"
  /\ AllWeightBalanced(call.before, call.beforeLive)
  /\ tree_size(call.before) >= 6
  /\ \E n \in call.beforeLive :
       /\ mem[n].parent_ \in call.beforeLive
       /\ call.before[mem[n].parent_].parent_ \in call.beforeLive
       /\ call.before[call.before[mem[n].parent_].parent_].parent_ = n

RECURSIVE Shape(_, _, _)
\* The subtree at p without the identities of its nodes: the size stored at
\* each position and the shapes below it.
Shape(m, p, fuel) ==
  IF p = nullptr \/ fuel = 0 THEN <<>>
  ELSE <<m[p].size_, Shape(m, m[p].left_, fuel - 1),
         Shape(m, m[p].right_, fuel - 1)>>

\* C26: exchange_nodes leaves the tree's shape unchanged: the topology and
\* the size stored at every position are the same before and after, and
\* only p and q trade positions; hence if every node satisfied the
\* weight-balance condition before the call, every node satisfies it after.
C26_ExchangeKeepsShape ==
  call.name = "exchange" =>
    /\ Shape(mem, Root(mem), MaxNodes + 1)
         = Shape(call.before, Root(call.before), MaxNodes + 1)
    /\ Traversal(mem)
         = SwapElements(Traversal(call.before), call.pos, call.pos2)
    /\ AllWeightBalanced(call.before, call.beforeLive)
         => AllWeightBalanced(mem, live)

\* A node has just been exchanged with its parent, their sizes differing,
\* in a balanced tree of five nodes.
C26_Witness ==
  /\ call.name = "exchange"
  /\ tree_size(call.before) >= 5
  /\ AllWeightBalanced(call.before, call.beforeLive)
  /\ call.before[call.pos].parent_ = call.pos2
  /\ call.before[call.pos].size_ >= 2

\* C27: each insert allocates exactly one node; each erase frees exactly
\* one node, the erased one, which no remaining node refers to; in every
\* state the allocated and not yet freed nodes are the nodes reachable from
\* the sentinel's left child.
C27_Ownership ==
  /\ TreeNodes(mem) = live
  /\ call.name = "insert" =>
       /\ call.ret \notin call.beforeLive
       /\ live = call.beforeLive \cup {call.ret}
  /\ call.name = "erase" =>
       /\ call.freed = <<call.pos>>
       /\ call.pos \in call.beforeLive
       /\ live = call.beforeLive \ {call.pos}
       /\ \A n \in live \cup {sentinel} :
            /\ mem[n].left_ # call.pos
            /\ mem[n].right_ # call.pos
            /\ mem[n].parent_ # call.pos

\* A node with two children, below the root, has just been erased and
\* freed.
C27_Witness ==
  /\ call.name = "erase"
  /\ call.freed = <<call.pos>>
  /\ call.before[call.pos].left_ # nullptr
  /\ call.before[call.pos].right_ # nullptr
  /\ call.before[call.pos].parent_ # sentinel

\* C28: exchange_elements(i, i), both arguments referring to the same real
\* element, leaves every left, right, parent and size field and the
\* sentinel's links unchanged.
C28_SelfExchange ==
  (call.name = "exchange" /\ call.pos = call.pos2) => mem = call.before

\* A node with a real parent and a left child has just been exchanged with
\* itself.
C28_Witness ==
  /\ call.name = "exchange"
  /\ call.pos = call.pos2
  /\ call.before[call.pos].parent_ # sentinel
  /\ call.before[call.pos].left_ # nullptr

RECURSIVE AncestorChain(_, _, _)
\* The proper ancestors of p among the real nodes, the parent first.
AncestorChain(m, p, fuel) ==
  IF is_sentinel(m, m[p].parent_) \/ fuel = 0 THEN <<>>
  ELSE <<m[p].parent_>> \o AncestorChain(m, m[p].parent_, fuel - 1)

\* balance_above, started at the node n of the heap m, leaves its loop, at a
\* node whose parent is the sentinel, having adjusted the size of the proper
\* ancestors of n, each once, from the parent upwards.
WalkReachesSentinel(m, n, increment) ==
  LET w == balance_above_walk(m, n, increment, <<>>, MaxNodes + 1)
  IN /\ w.terminated
     /\ is_sentinel(w.m, w.m[w.p].parent_)
     /\ w.adjusted = AncestorChain(m, n, MaxNodes + 1)
     /\ w.m = balance_above(m, n, increment)

\* C29: balance_above always terminates: starting from any real node of a
\* well-formed tree, with either increment, the walk strictly approaches the
\* sentinel even when rotations replace the current node by a new local
\* root, stops exactly when the current node's parent is the sentinel, and
\* adjusts the size of exactly the proper ancestors of the starting node,
\* once each; so does the walk that insert starts at the new leaf.
C29_BalanceAboveTerminates ==
  /\ Constructed =>
       \A n \in live : \A increment \in {-1, 1} :
         WalkReachesSentinel(mem, n, increment)
  /\ call.name = "insert" =>
       WalkReachesSentinel(
         attach_before_self(call.before, call.pos, call.value, call.ret),
         call.ret, 1)

\* An insert has just walked from a new leaf with three ancestors to the
\* sentinel, rotating at the root.
C29_Witness ==
  /\ call.name = "insert"
  /\ Len(AncestorChain(
           attach_before_self(call.before, call.pos, call.value, call.ret),
           call.ret, MaxNodes + 1)) >= 3
  /\ Root(mem) # Root(call.before)

\* C30: in every state incrementing end() yields end(), the sentinel being
\* its own inorder successor, and the inorder successor of the last element
\* is end().
C30_EndIsItsOwnSuccessor ==
  Constructed =>
    /\ inorder_successor(mem, sentinel) = sentinel
    /\ ~empty(mem) =>
         inorder_successor(mem, Rightmost(mem, Root(mem))) = sentinel

\* The last element has a real grandparent and the element before it has
\* just been erased.
C30_Witness ==
  /\ call.name = "erase"
  /\ ~empty(mem)
  /\ call.ret = Rightmost(mem, Root(mem))
  /\ mem[call.ret].parent_ # sentinel
  /\ mem[mem[call.ret].parent_].parent_ # sentinel

RECURSIVE SubtreeSeq(_, _, _)
\* The nodes of the subtree at p, in inorder.
SubtreeSeq(m, p, fuel) ==
  IF p = nullptr \/ fuel = 0 THEN <<>>
  ELSE SubtreeSeq(m, m[p].left_, fuel - 1) \o <<p>>
         \o SubtreeSeq(m, m[p].right_, fuel - 1)

\* What a call c of balance_left or balance_right did: nothing when the side
\* it checks is balanced; otherwise a rotation that puts the returned node in
\* a's slot, keeps the nodes of the subtree and their order, gives the new
\* root a's size, leaves every node of the subtree with a correct size and
\* with children that point back to it, and touches nothing else.
BalanceCallFrame(c) ==
  LET m == c.before
      n == c.after
      a == c.a
      parent == m[a].parent_
      checked == IF c.left THEN m[a].left_ ELSE m[a].right_
      other == IF c.left THEN m[a].right_ ELSE m[a].left_
      nodes == Elements(SubtreeSeq(m, a, MaxNodes + 1))
  IN IF 3 * (size(m, checked) + 1) >= size(m, other) + 1
     THEN n = m /\ c.ret = a
     ELSE /\ c.ret \in nodes \ {a}
          /\ n[c.ret].parent_ = parent
          /\ (m[parent].left_ = a) = (n[parent].left_ = c.ret)
          /\ (m[parent].right_ = a) = (n[parent].right_ = c.ret)
          /\ SubtreeSeq(n, c.ret, MaxNodes + 1) = SubtreeSeq(m, a, MaxNodes + 1)
          /\ n[c.ret].size_ = m[a].size_
          /\ \A x \in nodes :
               /\ n[x].size_ = size(n, n[x].left_) + size(n, n[x].right_) + 1
               /\ n[x].left_ # nullptr => n[n[x].left_].parent_ = x
               /\ n[x].right_ # nullptr => n[n[x].right_].parent_ = x
               /\ n[x].value_ = m[x].value_
          /\ \A x \in Addresses \ (nodes \cup {parent}) : n[x] = m[x]
          /\ n[parent].parent_ = m[parent].parent_
          /\ n[parent].size_ = m[parent].size_
          /\ n[parent].value_ = m[parent].value_

\* The calls of balance_left and balance_right made by the call that has
\* just returned, and the heap they left.
CallsMade ==
  IF call.name = "insert"
  THEN insert_before_self_calls(call.before, call.pos, call.value, call.ret)
  ELSE IF call.name = "erase"
  THEN LET e == erase_self_calls(call.before, call.pos)
       IN [m |-> Delete(e.m, call.pos), log |-> e.log]
  ELSE [m |-> mem, log |-> <<>>]

\* C31: every call of balance_left or balance_right that an insert or an
\* erase makes, on a node a, either changes nothing and returns a, when the
\* checked side is balanced, or rotates, after which the returned node has
\* a's former parent and a's slot in it, the subtree holds the same nodes in
\* the same inorder sequence, the returned root's size is a's size before the
\* call, and the size and parent fields of every node of the subtree are
\* correct.
C31_BalanceCallFrame ==
  /\ CallsMade.m = mem
  /\ \A i \in 1..Len(CallsMade.log) : BalanceCallFrame(CallsMade.log[i])

\* An erase has just made balance_right rotate twice, below the root: the
\* node it returned was a grandchild of the node it was called on and had a
\* subtree to hand over.
C31_Witness ==
  /\ call.name = "erase"
  /\ \E i \in 1..Len(CallsMade.log) :
       LET c == CallsMade.log[i]
       IN /\ ~c.left
          /\ c.ret # c.a
          /\ c.before[c.ret].parent_ # c.a
          /\ c.before[c.a].parent_ # sentinel
          /\ \/ c.before[c.ret].left_ # nullptr
             \/ c.before[c.ret].right_ # nullptr

\* The heap m with the sentinel's size_ and right_ fields as tree::tree()
\* and the model of the uninitialised size_ have them.
Canon(m) ==
  [m EXCEPT ![sentinel].size_ = Indeterminate, ![sentinel].right_ = nullptr]

\* The call that has just returned gave the result, and left the real
\* nodes and the sentinel's left_ and parent_, that it gives on the tree
\* whose sentinel has the size_ and right_ of Canon; it did not write the
\* sentinel's right_.
MutatorsAgree ==
  /\ call.name = "insert" =>
       LET t == insert_before_self(Canon(call.before), call.pos, call.value,
                                   call.ret)
       IN t.p = call.ret /\ Canon(t.m) = Canon(mem)
  /\ call.name = "erase" =>
       /\ inorder_successor(Canon(call.before), call.pos) = call.ret
       /\ Canon(Delete(erase_self(Canon(call.before), call.pos), call.pos))
            = Canon(mem)
  /\ call.name = "exchange" =>
       Canon(exchange_nodes(Canon(call.before), call.pos, call.pos2))
         = Canon(mem)
  /\ call.name \in {"insert", "erase", "exchange"} =>
       mem[sentinel].right_ = call.before[sentinel].right_

\* begin(), size(), empty(), the increment of every element, the decrement
\* of every element and of end(), and every search with every comparator
\* answer on the tree as they answer on Canon of it.
ReadersAgree ==
  call.name = "none" =>
    LET c == Canon(mem)
    IN /\ tree_begin(mem) = tree_begin(c)
       /\ tree_size(mem) = tree_size(c)
       /\ empty(mem) = empty(c)
       /\ \A n \in live : inorder_successor(mem, n) = inorder_successor(c, n)
       /\ \A n \in live \cup {sentinel} :
            inorder_predecessor(mem, n) = inorder_predecessor(c, n)
       /\ \A cmp \in Comparators(mem) :
            /\ lower_bound(mem, cmp) = lower_bound(c, cmp)
            /\ upper_bound(mem, cmp) = upper_bound(c, cmp)
            /\ equal_range(mem, cmp) = equal_range(c, cmp)
       /\ \A lcmp \in Comparators(mem), rcmp \in Comparators(mem) :
            range_between(mem, lcmp, rcmp) = range_between(c, lcmp, rcmp)

\* C32 as stated: no operation's outcome depends on the sentinel's size or
\* right fields: insert, erase, exchange_elements, the searches, begin, end,
\* increment, decrement and size give the same results and the same
\* real-node structure on two trees that differ only in what these fields
\* held at first.  The increment of end() does not: inorder_successor looks
\* at the right_ field of the node it is given.
C32_Original ==
  /\ MutatorsAgree
  /\ ReadersAgree
  /\ inorder_successor(mem, sentinel) = inorder_successor(Canon(mem), sentinel)

\* C32, amended: no operation's outcome depends on the sentinel's size
\* field, and none but the increment of end() depends on its right field,
\* which no operation writes; the increment of end() yields end() where the
\* right field is absent, as tree::tree() sets it.
C32_SentinelFieldsUnused ==
  /\ MutatorsAgree
  /\ ReadersAgree
  /\ inorder_successor(mem, sentinel)
       = inorder_successor([mem EXCEPT ![sentinel].size_ = Indeterminate],
                           sentinel)
  /\ mem[sentinel].right_ = nullptr =>
       inorder_successor(mem, sentinel) = sentinel

\* The root, whose address the sentinel's right_ field happened to hold,
\* had two children and has just been erased, in a tree whose sentinel's
\* size_ holds a number.
C32_Witness ==
  /\ call.name = "erase"
  /\ call.before[sentinel].left_ = call.pos
  /\ call.before[sentinel].right_ = call.pos
  /\ call.before[sentinel].size_ # Indeterminate
  /\ call.before[call.pos].left_ # nullptr
  /\ call.before[call.pos].right_ # nullptr

====
